---- MODULE Spec2Model ----
(***************************************************************************)
(* Model of the podcast-rag backend: the transcript chunkers (yt.py,       *)
(* ingest.py), the per-URL ingestion pipeline (ingest.py), and the         *)
(* two-stage retrieval funnel (store.py).                                  *)
(*                                                                         *)
(* Text is modelled as a sequence of one-character strings; " " and the    *)
(* line feed are the whitespace characters.  The budgets of the chunkers   *)
(* (800 / 120 in the source) are scaled down: they are drawn from small    *)
(* ranges so that chunk boundaries fall inside texts of a few characters.  *)
(***************************************************************************)
EXTENDS Integers, Sequences, FiniteSets, TLC

VARIABLES
    \* ---- chunker harness: one call of a chunker on drawn inputs
    c_pc,            \* "ready" | "yt" | "tokens" | "md"
    segments,        \* raw platform segments: Seq([start (half-seconds), text])
    max_chars,       \* max_chars / MAX
    overlap_chars,   \* overlap_chars / OVERLAP
    chunks,          \* list of chunk contents returned by the chunker
    docs,            \* Document list: Seq([start_seconds, page_content])
    duration,        \* document path: the duration the anchors are spread over
    \* ---- ingest_youtube_urls and _fetch_youtube_transcript_chunks
    pc,              \* position of the batch: "metadata" | "list" |
                     \* "find_generated" | "find_transcript" | "direct" |
                     \* "chunk" | "check" | "add" | "done"
    urls,            \* the argument: Seq(Urls)
    url_i,           \* 1-based position of the loop over urls
    results,         \* the outcome list being built
    index,           \* the vector index: one entry per add_documents call
    video,           \* what the platform holds for the current video
    lang_i,          \* position in the language fallback list
    tried,           \* strategies attempted for the current video, with result
    stage,           \* what each stage of the current item did
    history,         \* stage of every finished item, in order
    calls,           \* calls of the external services made for every item
    \* ---- VectorStore.search
    s_pc,            \* "call" | "rerank" | "returned" | "raised"
    query,           \* the argument
    sim_results,     \* results of similarity_search_with_score: Seq([doc, score])
    documents,       \* what was handed to the reranker
    reranked_docs,   \* what the reranker gave back
    final_results,   \* the returned list: Seq([doc, score])
    rerank_calls,    \* calls of the reranking service during this search
    \* ---- the HTTP endpoints of main.py
    e_pc,            \* "request" | "responded" | "raised"
    e_k,             \* the k parameter of GET /search
    world,           \* what the two external services would do for the query
    e_status,        \* HTTP status of the response
    e_body,          \* payload of the response
    \* ---- text functions: one call on a drawn text
    t_pc,            \* "ready" | "snippet" | "header" | "split"
    raw,             \* the argument
    t_out,           \* what the function returned
    \* ---- ingest_markdown_folder
    f_pc,            \* "start" | "files" | "done"
    md_files,        \* the .md files os.walk discovers, in order
    file_i,          \* 1-based position of the loop over the files
    ingested,        \* the outcome list being built
    f_log,           \* what happened to every file handled so far
    \* ---- two concurrent calls of ingest_youtube_urls
    b_pc,            \* per call: "metadata" | "transcript" | "add" | "done"
    b_urls,          \* per call: the argument
    b_i,             \* per call: 1-based position of the loop over urls
    b_results,       \* per call: the outcome list being built
    b_chunks,        \* per call: transcript_chunks of the current item
    b_log            \* per call: what the services answered for each item

chunkVars == <<c_pc, segments, max_chars, overlap_chars, chunks, docs, duration>>

ingestVars == <<pc, urls, url_i, results, index, video, lang_i, tried, stage,
                history, calls>>

searchVars == <<s_pc, query, sim_results, documents, reranked_docs,
                final_results, rerank_calls>>

apiVars == <<e_pc, e_k, world, e_status, e_body>>

textVars == <<t_pc, raw, t_out>>

folderVars == <<f_pc, md_files, file_i, ingested, f_log>>

batchVars == <<b_pc, b_urls, b_i, b_results, b_chunks, b_log>>

moreVars == <<apiVars, textVars, folderVars, batchVars>>

vars == <<chunkVars, ingestVars, searchVars, moreVars>>

-----------------------------------------------------------------------------
(* Bounds of the model *)

MaxUnits == 3
MaxChars == 4
MaxOverlap == 2
MaxDuration == 6
MaxWords == 8
MaxUrls == 2
MaxCandidates == 2
MaxLines == 4
MaxFrags == 3
MaxFiles == 2

\* unit texts (already stripped, non-empty), of 1 to 3 characters
Texts == { <<"a">>, <<"b">>, <<"a", "b">>, <<"b", "a", "b">> }

\* gaps between consecutive raw segment start times, in half-seconds
Gaps == {0, 1}

-----------------------------------------------------------------------------
(* No search, no request and no text call is in progress *)

ApiIdle ==
    /\ e_pc = "idle"
    /\ e_k = 0
    /\ world = <<>>
    /\ e_status = 0
    /\ e_body = <<>>

TextIdle ==
    /\ t_pc = "idle"
    /\ raw = <<>>
    /\ t_out = <<>>

FolderIdle ==
    /\ f_pc = "idle"
    /\ md_files = <<>>
    /\ file_i = 1
    /\ ingested = <<>>
    /\ f_log = <<>>

BatchIdle ==
    /\ b_pc = <<>>
    /\ b_urls = <<>>
    /\ b_i = <<>>
    /\ b_results = <<>>
    /\ b_chunks = <<>>
    /\ b_log = <<>>

SearchIdle ==
    /\ s_pc = "idle"
    /\ query = ""
    /\ sim_results = <<>>
    /\ documents = <<>>
    /\ reranked_docs = <<>>
    /\ final_results = <<>>
    /\ rerank_calls = 0

-----------------------------------------------------------------------------
(* Python string primitives *)

Min(a, b) == IF a <= b THEN a ELSE b
Max(a, b) == IF a >= b THEN a ELSE b

\* the line terminator and the whitespace characters of the model
NL == "\n"
Whitespace == {" ", NL}

RECURSIVE LStrip(_)
LStrip(s) == IF s /= <<>> /\ Head(s) \in Whitespace THEN LStrip(Tail(s)) ELSE s

RECURSIVE RStrip(_)
RStrip(s) ==
    IF s /= <<>> /\ s[Len(s)] \in Whitespace
    THEN RStrip(SubSeq(s, 1, Len(s) - 1))
    ELSE s

\* str.strip()
Strip(s) == RStrip(LStrip(s))

\* s[-n:] for n >= 0.  Python reads -0 as 0, so s[-0:] is the whole string.
NegSlice(s, n) ==
    IF n = 0 \/ n >= Len(s) THEN s ELSE SubSeq(s, Len(s) - n + 1, Len(s))

\* " ".join(parts)
RECURSIVE JoinSp(_)
JoinSp(parts) ==
    IF parts = <<>> THEN <<>>
    ELSE IF Len(parts) = 1 THEN parts[1]
    ELSE parts[1] \o <<" ">> \o JoinSp(Tail(parts))

IsSuffix(p, s) ==
    Len(p) <= Len(s) /\ SubSeq(s, Len(s) - Len(p) + 1, Len(s)) = p

-----------------------------------------------------------------------------
(* yt.py: segment extraction and the platform-transcript chunker *)

\* cur_start = None
None == -1

\* int(float(s.get("start", 0))): the start is kept in half-seconds
IntOfStart(h) == h \div 2

\* lines 141-146: strip each text, truncate each start, drop empty texts
RECURSIVE ExtractSents(_)
ExtractSents(segs) ==
    IF segs = <<>> THEN <<>>
    ELSE LET text == Strip(Head(segs).text)
             start == IntOfStart(Head(segs).start)
         IN  IF text /= <<>>
             THEN <<[start |-> start, text |-> text]>> \o ExtractSents(Tail(segs))
             ELSE ExtractSents(Tail(segs))

\* push_chunk(), lines 163-165
PushChunk(st) ==
    IF st.cur_text /= <<>>
    THEN Append(st.chunks,
                [start |-> IF st.cur_start /= None THEN st.cur_start ELSE 0,
                 content |-> Strip(st.cur_text)])
    ELSE st.chunks

\* the else-branch of the loop, lines 174-177, under a mutation that forgets
\* to restart the anchor
YtOverflowKeepsStart(st, s, MAX, OVERLAP) ==
    [chunks |-> PushChunk(st),
     cur_text |-> Strip(NegSlice(st.cur_text, OVERLAP) \o <<" ">> \o s.text),
     cur_start |-> st.cur_start]

\* the else-branch of the loop, lines 174-177
YtOverflow(st, s, MAX, OVERLAP) ==
    [chunks |-> PushChunk(st),
     cur_text |-> Strip(NegSlice(st.cur_text, OVERLAP) \o <<" ">> \o s.text),
     cur_start |-> s.start]

\* the else-branch under a mutation that opens the new chunk with the tail only
YtStepDropsUnit(st, s, MAX, OVERLAP) ==
    IF st.cur_text = <<>>
    THEN [st EXCEPT !.cur_text = s.text, !.cur_start = s.start]
    ELSE IF Len(st.cur_text) + 1 + Len(s.text) <= MAX
    THEN [st EXCEPT !.cur_text = st.cur_text \o <<" ">> \o s.text]
    ELSE [chunks |-> PushChunk(st),
          cur_text |-> Strip(NegSlice(st.cur_text, OVERLAP)),
          cur_start |-> s.start]

\* one iteration of the loop at lines 167-177
YtStep(st, s, MAX, OVERLAP) ==
    IF st.cur_text = <<>>
    THEN [st EXCEPT !.cur_text = s.text, !.cur_start = s.start]
    ELSE IF Len(st.cur_text) + 1 + Len(s.text) <= MAX
    THEN [st EXCEPT !.cur_text = st.cur_text \o <<" ">> \o s.text]
    ELSE YtOverflow(st, s, MAX, OVERLAP)

RECURSIVE YtLoop(_, _, _, _)
YtLoop(st, sents, MAX, OVERLAP) ==
    IF sents = <<>> THEN st
    ELSE YtLoop(YtStep(st, Head(sents), MAX, OVERLAP), Tail(sents), MAX, OVERLAP)

\* lines 155-179: the chunk list [(start, content)]
YtChunks(sents, MAX, OVERLAP) ==
    PushChunk(YtLoop([chunks |-> <<>>, cur_text |-> <<>>, cur_start |-> None],
                     sents, MAX, OVERLAP))

\* lines 183-193: one Document per chunk
YtDocs(chs) ==
    [k \in 1..Len(chs) |->
        [start_seconds |-> chs[k].start, page_content |-> chs[k].content]]

\* lines 139-203: from raw segments to the returned Document list
TranscriptDocs(segs, MAX, OVERLAP) ==
    YtDocs(YtChunks(ExtractSents(segs), MAX, OVERLAP))

-----------------------------------------------------------------------------
(* ingest.py: _chunk_by_tokens and the document-path anchors *)

\* one iteration of the loop at lines 292-300
TokStep(st, s, maxc, ov) ==
    IF Len(st.cur) + Len(s) + 1 <= maxc
    THEN [st EXCEPT !.cur = Strip(st.cur \o <<" ">> \o s)]
    ELSE LET tail == IF st.cur /= <<>> THEN NegSlice(st.cur, ov) ELSE <<>>
         IN  [chunks |-> IF st.cur /= <<>> THEN Append(st.chunks, st.cur)
                                           ELSE st.chunks,
              cur |-> IF tail /= <<>> THEN Strip(tail \o <<" ">> \o s) ELSE s]

RECURSIVE TokLoop(_, _, _, _)
TokLoop(st, sentences, maxc, ov) ==
    IF sentences = <<>> THEN st
    ELSE TokLoop(TokStep(st, Head(sentences), maxc, ov), Tail(sentences), maxc, ov)

\* _chunk_by_tokens(sentences, max_chars, overlap_chars), lines 285-303
ChunkByTokens(sentences, maxc, ov) ==
    LET st == TokLoop([chunks |-> <<>>, cur |-> <<>>], sentences, maxc, ov)
    IN  IF st.cur /= <<>> THEN Append(st.chunks, st.cur) ELSE st.chunks

\* lines 183-185: int(words * 0.375) when no positive duration is known
\* (0.375 = 3/8 is exact in binary floating point)
MdDuration(dur, words) ==
    IF dur <= 0 THEN (words * 3) \div 8 ELSE dur

\* Binary floating point (IEEE 754 double precision, round to nearest, ties
\* to even) for the quotient and the product of line 191.  A positive value
\* is [limbs, exp]: a significand of 53 binary digits held as four limbs of
\* 14, 13, 13 and 13 digits, the first digit 1, standing for the integer
\* the digits spell times 2^exp.

\* 2^13 and 2^14: the sizes of a lower limb and of the first limb
LIMB == 8192
TOP == 16384

\* the number of binary digits of a double's significand
MANT == 53

RECURSIVE Pow2(_)
Pow2(k) == IF k = 0 THEN 1 ELSE 2 * Pow2(k - 1)

\* the number of binary digits of a natural number
RECURSIVE BitLength(_)
BitLength(t) == IF t = 0 THEN 0 ELSE 1 + BitLength(t \div 2)

\* the number of zeros before the first 1 among the binary digits of the
\* fraction r/n, for 0 < r < n
RECURSIVE LeadingZeros(_, _)
LeadingZeros(r, n) == IF 2 * r >= n THEN 0 ELSE 1 + LeadingZeros(2 * r, n)

\* a significand plus one; 2^53 is 2^52 with the exponent one higher
Increment(l, exp) ==
    LET v4 == l[4] + 1
        v3 == l[3] + v4 \div LIMB
        v2 == l[2] + v3 \div LIMB
        v1 == l[1] + v2 \div LIMB
    IN  IF v1 = TOP
        THEN [limbs |-> <<TOP \div 2, 0, 0, 0>>, exp |-> exp + 1]
        ELSE [limbs |-> <<v1, v2 % LIMB, v3 % LIMB, v4 % LIMB>>, exp |-> exp]

\* rounding to 53 digits: l is the significand cut to 53 digits, exp its
\* exponent, guard whether the first digit cut off is 1, sticky whether a 1
\* follows the guard digit
RoundNearestEven(l, exp, guard, sticky) ==
    IF guard /\ (sticky \/ l[4] % 2 = 1)
    THEN Increment(l, exp)
    ELSE [limbs |-> l, exp |-> exp]

\* the double i / n for integers 0 < i < n < 2^17: long division, limb
\* after limb, of i * 2^z by n, z the number of leading zeros of i/n
FloatDiv(i, n) ==
    LET z == LeadingZeros(i, n)
        r == i * Pow2(z)
        d1 == (r * TOP) \div n
        r1 == (r * TOP) % n
        d2 == (r1 * LIMB) \div n
        r2 == (r1 * LIMB) % n
        d3 == (r2 * LIMB) \div n
        r3 == (r2 * LIMB) % n
        d4 == (r3 * LIMB) \div n
        r4 == (r3 * LIMB) % n
    IN  RoundNearestEven(<<d1, d2, d3, d4>>, 0 - (z + MANT), 2 * r4 >= n,
                         2 * r4 /= 0 /\ 2 * r4 /= n)

\* the double f * d for a positive double f and an integer 0 < d < 2^13:
\* the exact product limb by limb, then cut by its e surplus digits
FloatMul(f, d) ==
    LET t4 == f.limbs[4] * d
        t3 == f.limbs[3] * d + t4 \div LIMB
        t2 == f.limbs[2] * d + t3 \div LIMB
        t1 == f.limbs[1] * d + t2 \div LIMB
        p2 == t2 % LIMB
        p3 == t3 % LIMB
        p4 == t4 % LIMB
        e == BitLength(t1) - 14
        s == Pow2(e)
        m1 == t1 \div s
        m2 == (t1 % s) * (LIMB \div s) + p2 \div s
        m3 == (p2 % s) * (LIMB \div s) + p3 \div s
        m4 == (p3 % s) * (LIMB \div s) + p4 \div s
        cut == p4 % s
    IN  IF e = 0 THEN [limbs |-> <<t1, p2, p3, p4>>, exp |-> f.exp]
        ELSE RoundNearestEven(<<m1, m2, m3, m4>>, f.exp + e,
                              cut \div (s \div 2) = 1, cut % (s \div 2) /= 0)

\* int(f) for a positive double f below 2^14: the digits before the point
FloatToInt(f) ==
    LET w == MANT + f.exp
    IN  IF w <= 0 THEN 0 ELSE f.limbs[1] \div Pow2(14 - w)

\* line 191: int((i / max(1, n)) * duration) for 0 <= i < n and a duration
\* that is not negative (lines 183-185 replace every other one)
FloatAnchor(i, n, dur) ==
    IF i = 0 \/ dur = 0 THEN 0
    ELSE FloatToInt(FloatMul(FloatDiv(i, Max(1, n)), dur))

\* the chunk counts and durations whose anchors are tabulated
TableChunks == 10
TableSeconds == 90

\* FloatAnchor(k - 1, n, dur) at [n][dur][k], computed once
AnchorTable ==
    [n \in 1..TableChunks |->
        [dur \in 1..TableSeconds |->
            [k \in 1..n |-> FloatAnchor(k - 1, n, dur)]]]

\* lines 191, 197: max(0, int((i / max(1, n)) * duration))
MdStart(i, n, dur) ==
    Max(0, IF n \in 1..TableChunks /\ dur \in 1..TableSeconds
           THEN AnchorTable[n][dur][i + 1]
           ELSE FloatAnchor(i, n, dur))

\* lines 182-201: the Document list of one file
MdDocs(chs, dur, words) ==
    LET n == Len(chs)
        d == MdDuration(dur, words)
    IN  [k \in 1..n |->
            [start_seconds |-> MdStart(k - 1, n, d), page_content |-> chs[k]]]

-----------------------------------------------------------------------------
(* ingest.py: ingest_youtube_urls, with yt.py: _fetch_youtube_transcript_chunks *)

Urls == {"u1", "u2"}

\* for langs in (["en"], ["en-US"], ["en-GB"], ["auto"]), yt.py line 114
LANGS == <<"en", "en-US", "en-GB", "auto">>

\* the fixed order of the acquisition strategies in the code
StrategyOrder == <<"generated", "transcript">> \o LANGS

Rank(sname) == CHOOSE k \in 1..Len(StrategyOrder) : StrategyOrder[k] = sname

\* raw transcripts the platform may hand back (starts in half-seconds): an
\* empty list, a blank segment, one padded segment, three segments
RawTranscripts ==
    { <<>>,
      <<[start |-> 0, text |-> <<" ">>]>>,
      <<[start |-> 1, text |-> <<" ", "a">>]>>,
      <<[start |-> 0, text |-> <<"b", "a", "b">>],
        [start |-> 3, text |-> <<"b", "a", "b">>],
        [start |-> 5, text |-> <<"b">>]>> }

\* what the platform holds for a video: whether listing works, and which
\* English transcripts exist
Videos == [listed : BOOLEAN, generated : BOOLEAN, manual : BOOLEAN]

NoVideo == [listed |-> FALSE, generated |-> FALSE, manual |-> FALSE]

NoStage == [meta |-> "none", fetch |-> "none", add |-> "none"]

\* the calls made for one item: _get_video_metadata, ytt_api.list,
\* vs.add_documents, and under fetch the largest number of times any one
\* acquisition strategy was run
NoCalls == [metadata |-> 0, list |-> 0, fetch |-> 0, add |-> 0]

IngestIdle ==
    /\ pc = "idle"
    /\ urls = <<>>
    /\ url_i = 1
    /\ results = <<>>
    /\ index = <<>>
    /\ video = NoVideo
    /\ lang_i = 1
    /\ tried = <<>>
    /\ stage = NoStage
    /\ history = <<>>
    /\ calls = <<>>

RECURSIVE UrlLists(_)
UrlLists(n) ==
    IF n = 0 THEN { <<>> }
    ELSE LET shorter == UrlLists(n - 1)
         IN  shorter \cup
             { Append(l, u) : l \in { x \in shorter : Len(x) = n - 1 }, u \in Urls }

InitIngest ==
    /\ c_pc = "idle"
    /\ segments = <<>>
    /\ max_chars = MaxChars
    /\ overlap_chars = MaxOverlap
    /\ chunks = <<>>
    /\ docs = <<>>
    /\ duration = 0
    /\ pc = "metadata"
    /\ urls \in UrlLists(MaxUrls)
    /\ url_i = 1
    /\ results = <<>>
    /\ index = <<>>
    /\ video = NoVideo
    /\ lang_i = 1
    /\ tried = <<>>
    /\ stage = NoStage
    /\ history = <<>>
    /\ calls = [k \in 1..Len(urls) |-> NoCalls]
    /\ SearchIdle
    /\ e_pc = "request"
    /\ e_k = 0
    /\ world = <<>>
    /\ e_status = 0
    /\ e_body = <<>>
    /\ TextIdle
    /\ FolderIdle
    /\ BatchIdle

url == urls[url_i]

\* one more call of a service for the current item
Called(service) == [calls EXCEPT ![url_i][service] = @ + 1]

\* how often a strategy appears in a list of attempts
Times(sname, log) ==
    Cardinality({ k \in 1..Len(log) : log[k].strategy = sname })

\* one more run of an acquisition strategy, the last of log
Attempted(log) ==
    [calls EXCEPT ![url_i].fetch =
                      Max(@, Times(log[Len(log)].strategy, log))]

ErrorOutcome(u, kind) ==
    [url |-> u, status |-> "error", error_type |-> kind, chunks |-> 0]

OkOutcome(u, n) ==
    [url |-> u, status |-> "ok", error_type |-> "", chunks |-> n]

\* the end of an item under a mutation that leaves the loop on an error
\* outcome (break for continue)
FinishItemBreaks(outcome, st) ==
    /\ results' = Append(results, outcome)
    /\ history' = Append(history, st)
    /\ url_i' = IF outcome.status = "error" THEN Len(urls) + 1 ELSE url_i + 1
    /\ pc' = "metadata"
    /\ video' = NoVideo
    /\ stage' = NoStage
    /\ tried' = <<>>
    /\ lang_i' = 1
    /\ segments' = <<>>
    /\ docs' = <<>>

\* results.append(outcome) followed by the end of the loop body: the item is
\* finished, the loop moves to the next URL and the item's locals are dead
FinishItem(outcome, st) ==
    /\ results' = Append(results, outcome)
    /\ history' = Append(history, st)
    /\ url_i' = url_i + 1
    /\ pc' = "metadata"
    /\ video' = NoVideo
    /\ stage' = NoStage
    /\ tried' = <<>>
    /\ lang_i' = 1
    /\ segments' = <<>>
    /\ docs' = <<>>

\* the item goes on to its next stage
SameItem == UNCHANGED <<results, history, url_i>>

\* the result a strategy is recorded with
ResultOf(segs) == IF segs = <<>> THEN "empty" ELSE "segs"

\* ingest.py lines 29-43: step 1, _get_video_metadata(url)
FetchMetadata ==
    /\ pc = "metadata"
    /\ url_i <= Len(urls)
    /\ calls' = Called("metadata")
    /\ \E ok \in BOOLEAN, v \in Videos :
          IF ok
          THEN /\ video' = v
               /\ stage' = [NoStage EXCEPT !.meta = "ok"]
               /\ pc' = "list"
               /\ SameItem
               /\ UNCHANGED <<tried, lang_i, segments, docs>>
          ELSE FinishItem(ErrorOutcome(url, "metadata_fetch_failed"),
                          [NoStage EXCEPT !.meta = "exc"])
    /\ UNCHANGED <<urls, index, c_pc, max_chars, overlap_chars, chunks, duration,
                   searchVars, moreVars>>

\* yt.py lines 82-84 and 108-110: ytt_api.list(video_id)
ListTranscripts ==
    /\ pc = "list"
    /\ pc' = IF video.listed THEN "find_generated" ELSE "direct"
    /\ calls' = Called("list")
    /\ UNCHANGED <<urls, url_i, results, index, video, lang_i, tried, stage,
                   history, chunkVars, searchVars, moreVars>>

\* the test at line 113 under a mutation that always runs the fallback
AfterListingAlwaysDirect(segs) == "direct"

\* where the function goes after the listing block, yt.py line 113
AfterListing(segs) == IF segs /= <<>> THEN "chunk" ELSE "direct"

\* yt.py lines 87-94: find_generated_transcript(['en']) and fetch()
FindGenerated ==
    /\ pc = "find_generated"
    /\ \/ /\ video.generated
          /\ \E segs \in RawTranscripts :
                /\ segments' = segs
                /\ tried' = Append(tried, [strategy |-> "generated",
                                           result |-> ResultOf(segs)])
                /\ pc' = AfterListing(segs)
       \/ /\ tried' = Append(tried, [strategy |-> "generated", result |-> "fail"])
          /\ pc' = "find_transcript"
          /\ UNCHANGED segments
    /\ calls' = Attempted(tried')
    /\ UNCHANGED <<urls, url_i, results, index, video, lang_i, stage, history,
                   c_pc, max_chars, overlap_chars, chunks, docs, duration,
                   searchVars, moreVars>>

\* yt.py lines 97-107: find_transcript(['en']) and fetch(); the lookup gives
\* a manually created transcript, or else a generated one
FindTranscript ==
    /\ pc = "find_transcript"
    /\ \/ /\ video.manual \/ video.generated
          /\ \E segs \in RawTranscripts :
                /\ segments' = segs
                /\ tried' = Append(tried, [strategy |-> "transcript",
                                           result |-> ResultOf(segs)])
                /\ pc' = AfterListing(segs)
       \/ /\ tried' = Append(tried, [strategy |-> "transcript", result |-> "fail"])
          /\ pc' = "direct"
          /\ UNCHANGED segments
    /\ calls' = Attempted(tried')
    /\ UNCHANGED <<urls, url_i, results, index, video, lang_i, stage, history,
                   c_pc, max_chars, overlap_chars, chunks, docs, duration,
                   searchVars, moreVars>>

\* the language loop under a mutation that runs the same candidate again
NextCandidateAgain(i) == i

\* yt.py lines 114 and 131-133: continue moves the loop to the next candidate
NextCandidate(i) == i + 1

\* yt.py lines 114-133 and 205-207: one iteration of the language fallback.
\* TranscriptsDisabled / NoTranscriptFound moves to the next candidate; any
\* other exception leaves the loop for the handler at line 205, which
\* returns [].
DirectFetch ==
    /\ pc = "direct"
    /\ \/ \E segs \in RawTranscripts :
             /\ segments' = segs
             /\ tried' = Append(tried, [strategy |-> LANGS[lang_i],
                                        result |-> ResultOf(segs)])
             /\ pc' = "chunk"
             /\ UNCHANGED <<lang_i, docs, stage>>
       \/ /\ tried' = Append(tried, [strategy |-> LANGS[lang_i],
                                      result |-> "fail"])
          /\ IF lang_i < Len(LANGS)
             THEN lang_i' = NextCandidate(lang_i) /\ pc' = "direct"
             ELSE lang_i' = lang_i /\ pc' = "chunk"
          /\ UNCHANGED <<segments, docs, stage>>
       \/ /\ tried' = Append(tried, [strategy |-> LANGS[lang_i],
                                      result |-> "error"])
          /\ docs' = <<>>
          /\ stage' = [stage EXCEPT !.fetch = "exc"]
          /\ pc' = "check"
          /\ UNCHANGED <<segments, lang_i>>
    /\ calls' = Attempted(tried')
    /\ UNCHANGED <<urls, url_i, results, index, video, history,
                   c_pc, max_chars, overlap_chars, chunks, duration, searchVars,
                   moreVars>>

\* yt.py lines 135-203: return [] without segments, else extract, chunk and
\* build the Document list
ChunkTranscript ==
    /\ pc = "chunk"
    /\ docs' = IF segments = <<>> THEN <<>>
               ELSE TranscriptDocs(segments, max_chars, overlap_chars)
    /\ stage' = [stage EXCEPT !.fetch = IF docs' = <<>> THEN "empty" ELSE "docs"]
    /\ pc' = "check"
    /\ UNCHANGED <<urls, url_i, results, index, video, lang_i, tried, history,
                   calls, c_pc, segments, max_chars, overlap_chars, chunks,
                   duration, searchVars, moreVars>>

\* step 2 under a mutation that lets an empty chunk list through
TranscriptErrorNever(ds) == ""

\* ingest.py lines 46-78: the error kind step 2 records for what line 48
\* gave back ("" when the item goes on).  The except clause at line 68 needs
\* an exception out of _fetch_youtube_transcript_chunks, which catches every
\* Exception itself (yt.py 205-207) and so hands over a list in every case.
TranscriptError(ds) ==
    IF ds = <<>> THEN "no_transcript" ELSE ""

\* ingest.py lines 46-78: step 2, after the call at line 48 returned
CheckTranscript ==
    /\ pc = "check"
    /\ IF TranscriptError(docs) /= ""
       THEN FinishItem(ErrorOutcome(url, TranscriptError(docs)), stage)
       ELSE /\ pc' = "add"
            /\ SameItem
            /\ UNCHANGED <<video, lang_i, tried, stage, segments, docs>>
    /\ UNCHANGED <<urls, index, calls, c_pc, max_chars, overlap_chars, chunks,
                   duration, searchVars, moreVars>>

\* the index under a mutation that keeps one entry per source
add_documents_once(idx, source, ds) ==
    IF \E k \in 1..Len(idx) : idx[k].url = source THEN idx
    ELSE Append(idx, [url |-> source, n |-> Len(ds)])

\* store.py lines 33-51: VectorStore.add_documents(docs) when the index
\* accepts the documents: they are appended.  An index entry stands for the
\* documents of one call, with the source they come from and their number.
add_documents(idx, source, ds) ==
    Append(idx, [url |-> source, n |-> Len(ds)])

\* step 3 under a mutation that reports success before the add returns
AddOutcomeAlwaysOk(u, ok, n) == OkOutcome(u, n)

\* ingest.py lines 85 and 89-95: the outcome of step 3
AddOutcome(u, ok, n) ==
    IF ok THEN OkOutcome(u, n) ELSE ErrorOutcome(u, "embedding_failed")

\* ingest.py lines 81-95: step 3, vs.add_documents(transcript_chunks)
AddDocuments ==
    /\ pc = "add"
    /\ calls' = Called("add")
    /\ \E ok \in BOOLEAN :
          /\ index' = IF ok THEN add_documents(index, url, docs) ELSE index
          /\ FinishItem(AddOutcome(url, ok, Len(docs)),
                        [stage EXCEPT !.add = IF ok THEN "ok" ELSE "exc"])
    /\ UNCHANGED <<urls, c_pc, max_chars, overlap_chars, chunks, duration,
                   searchVars, moreVars>>

\* The handler at ingest.py lines 96-105 (unknown_error) has no action: every
\* statement of the loop body that can raise sits inside one of the three
\* inner try blocks, so nothing reaches it.

\* ingest.py lines 107-111: the loop is over, return results
ReturnResults ==
    /\ pc = "metadata"
    /\ url_i > Len(urls)
    /\ pc' = "done"
    /\ UNCHANGED <<urls, url_i, results, index, video, lang_i, tried, stage,
                   history, calls, chunkVars, searchVars, moreVars>>

\* main.py line 66: the number of outcomes with status ok
SuccessCount(res) ==
    Cardinality({ k \in 1..Len(res) : res[k].status = "ok" })

\* the test at line 79 under a mutation that drops the count of URLs
AllFailedWithoutCount(success_count, url_count) == success_count = 0

\* main.py line 79: if success_count == 0 and url_count > 0
AllFailed(success_count, url_count) == success_count = 0 /\ url_count > 0

\* main.py lines 80-87: url and error_type of every outcome with status error
ErrorDetails(res) ==
    LET failed == SelectSeq(res, LAMBDA r : r.status = "error")
    IN  [k \in 1..Len(failed) |->
            [url |-> failed[k].url, error_type |-> failed[k].error_type]]

\* main.py lines 53-101: the handler of POST /ingest/youtube after
\* ingest_youtube_urls returned.  The HTTPException of line 89 passes the
\* handler at lines 99-101, which logs and re-raises, and the framework
\* answers with its status code and detail.
IngestYoutube ==
    /\ e_pc = "request"
    /\ pc = "done"
    /\ IF AllFailed(SuccessCount(results), Len(urls))
       THEN /\ e_status' = 400
            /\ e_body' = [errors |-> ErrorDetails(results), results |-> results]
            /\ e_pc' = "raised"
       ELSE /\ e_status' = 200
            /\ e_body' = [results |-> results]
            /\ e_pc' = "responded"
    /\ UNCHANGED <<e_k, world, ingestVars, chunkVars, searchVars, textVars,
                   folderVars, batchVars>>

NextIngest ==
    \/ FetchMetadata
    \/ ListTranscripts
    \/ FindGenerated
    \/ FindTranscript
    \/ DirectFetch
    \/ ChunkTranscript
    \/ CheckTranscript
    \/ AddDocuments
    \/ ReturnResults
    \/ IngestYoutube

SpecIngest == InitIngest /\ [][NextIngest]_vars

-----------------------------------------------------------------------------
(* Claims about the per-URL pipeline *)

Finished == 1..Len(results)

\* C1: the batch is always at a step of some item or at its return, never
\* aborted; it holds one outcome per URL handled so far, in input order, and
\* on return one per input URL; two items whose own stages went the same way
\* have the same status and error kind.
BatchIsolation ==
    /\ url_i \in 1..(Len(urls) + 1)
    /\ pc \in {"metadata", "done"} \/ url_i <= Len(urls)
    /\ pc = "done" => url_i = Len(urls) + 1
    /\ Len(results) = url_i - 1
    /\ Len(history) = Len(results)
    /\ pc = "done" => Len(results) = Len(urls)
    /\ \A k \in Finished : results[k].url = urls[k]
    /\ \A j, k \in Finished :
          history[j] = history[k] =>
              /\ results[j].status = results[k].status
              /\ results[j].error_type = results[k].error_type

\* C1 witness: a returned batch whose first item failed at the metadata
\* fetch and whose second item was ingested
BatchIsolationWitness ==
    /\ pc = "done"
    /\ Len(urls) = 2
    /\ history[1].meta = "exc"
    /\ results[2].status = "ok"

\* C2: an exception raised while the transcript is fetched gives
\* transcript_fetch_failed; no_transcript is kept for a fetch that completes
\* with an empty result.
FetchExceptionClassified ==
    \A k \in Finished :
        /\ history[k].fetch = "exc" =>
              /\ results[k].status = "error"
              /\ results[k].error_type = "transcript_fetch_failed"
        /\ history[k].fetch = "empty" => results[k].error_type = "no_transcript"

\* C3: the error kind names the first failed stage, and ok is recorded exactly
\* when metadata was fetched, the transcript gave at least one chunk and the
\* index add returned.
FirstFailedStage ==
    \A k \in Finished :
        /\ history[k].meta = "exc" =>
              results[k].error_type = "metadata_fetch_failed"
        /\ history[k].meta = "ok" /\ history[k].fetch = "empty" =>
              results[k].error_type = "no_transcript"
        /\ history[k].add = "exc" => results[k].error_type = "embedding_failed"
        /\ results[k].status = "ok" <=>
              /\ history[k].meta = "ok"
              /\ history[k].fetch = "docs"
              /\ history[k].add = "ok"
        /\ results[k].status = "ok" => results[k].chunks >= 1
        /\ results[k].status = "error" <=> results[k].error_type /= ""

\* C3 witness: a returned batch with an item stopped by an empty transcript
\* and an item stopped by the index add
FirstFailedStageWitness ==
    /\ pc = "done"
    /\ Len(urls) = 2
    /\ history[1] = [meta |-> "ok", fetch |-> "empty", add |-> "none"]
    /\ history[2] = [meta |-> "ok", fetch |-> "docs", add |-> "exc"]

\* C4 as stated: the manual transcript is looked up before the auto-generated
\* one, so the auto-generated lookup is never the first attempt.
ManualBeforeGenerated ==
    \A k \in 1..Len(tried) :
        tried[k].strategy = "generated" =>
            \E j \in 1..(k - 1) : tried[j].strategy = "transcript"

\* C4 amended: the attempts follow the order auto-generated, find_transcript,
\* then the language candidates; the auto-generated lookup is the first
\* attempt whenever the listing succeeded; nothing is attempted after an
\* attempt that gave segments, and the segments in use are the last attempt's.
AcquisitionOrder ==
    /\ \A k \in 1..(Len(tried) - 1) :
          /\ Rank(tried[k].strategy) < Rank(tried[k + 1].strategy)
          /\ tried[k].result /= "segs"
    /\ tried /= <<>> /\ video.listed => tried[1].strategy = "generated"
    /\ tried /= <<>> /\ ~video.listed => tried[1].strategy = LANGS[1]
    /\ segments /= <<>> =>
          /\ tried /= <<>>
          /\ tried[Len(tried)].result = "segs"

\* C4 witness: both transcripts exist and the auto-generated one is chunked
AcquisitionOrderWitness ==
    /\ pc = "check"
    /\ video.manual /\ video.generated
    /\ tried = <<[strategy |-> "generated", result |-> "segs"]>>
    /\ docs /= <<>>

\* C16: a request to /ingest/youtube that is over ended in the 400 failure
\* exactly when at least one URL was requested and no outcome is ok; the 400
\* detail and the normal body both carry every outcome, one per URL; a batch
\* with an ok outcome and a batch without URLs return normally.
AllFailedDistinguishable ==
    e_pc /= "request" =>
        /\ e_status \in {200, 400}
        /\ e_status = 400 <=>
              /\ Len(urls) >= 1
              /\ \A k \in 1..Len(results) : results[k].status /= "ok"
        /\ e_status = 400 <=> e_pc = "raised"
        /\ e_status = 200 <=> e_pc = "responded"
        /\ e_body.results = results
        /\ Len(results) = Len(urls)
        /\ e_status = 400 =>
              /\ Len(e_body.errors) = Len(results)
              /\ \A k \in 1..Len(results) :
                    /\ e_body.errors[k].url = urls[k]
                    /\ e_body.errors[k].error_type = results[k].error_type
        /\ (\E k \in 1..Len(results) : results[k].status = "ok") =>
              e_status = 200
        /\ urls = <<>> => e_status = 200 /\ e_body.results = <<>>

\* C16 witness: a batch of two URLs that both failed was answered with 400
AllFailedWitness ==
    /\ e_pc = "raised"
    /\ e_status = 400
    /\ Len(urls) = 2
    /\ Len(e_body.results) = 2

\* C17: no service is called twice for an item: the metadata service is
\* called exactly once for every URL handled, the listing, every acquisition
\* strategy and the index add at most once; and no call is made for an item
\* before the outcome of the item before it is recorded.
NoRetries ==
    /\ Len(calls) = Len(urls)
    /\ \A k \in 1..Len(urls) :
          /\ calls[k].metadata <= 1
          /\ calls[k].list <= 1
          /\ calls[k].fetch <= 1
          /\ calls[k].add <= 1
          /\ k <= Len(results) => calls[k].metadata = 1
          /\ calls[k] /= NoCalls => Len(results) >= k - 1
    /\ \A j, k \in 1..Len(tried) :
          tried[j].strategy = tried[k].strategy => j = k
    /\ pc /= "metadata" /\ pc /= "done" => calls[url_i].metadata = 1
    /\ pc = "done" => \A k \in 1..Len(urls) : calls[k].metadata = 1

\* C17 witness: a returned batch of two URLs; the first went through the
\* whole pipeline, the second stopped after the transcript stage
NoRetriesWitness ==
    /\ pc = "done"
    /\ Len(urls) = 2
    /\ calls[1] = [metadata |-> 1, list |-> 1, fetch |-> 1, add |-> 1]
    /\ calls[2] = [metadata |-> 1, list |-> 1, fetch |-> 1, add |-> 0]

\* the outcome a step records, if it records one
Recorded == results'[Len(results')]

\* C18: a step that records metadata_fetch_failed belongs to an item for
\* which neither the transcript service nor the index was called; a step
\* that records metadata_fetch_failed, no_transcript or
\* transcript_fetch_failed belongs to an item for which the index was not
\* called, and leaves the index as it is; the index changes only in the add
\* step of an item whose metadata was fetched and whose transcript gave
\* chunks, by one entry for that item.
StageFailureStops ==
    [][ /\ Len(results') > Len(results) =>
              /\ Recorded.error_type = "metadata_fetch_failed" =>
                    /\ calls'[url_i].list = 0
                    /\ calls'[url_i].fetch = 0
                    /\ calls'[url_i].add = 0
                    /\ index' = index
              /\ Recorded.error_type \in {"no_transcript",
                                          "transcript_fetch_failed"} =>
                    /\ calls'[url_i].add = 0
                    /\ index' = index
        /\ calls' /= calls /\ calls'[url_i].add /= calls[url_i].add =>
              /\ pc = "add"
              /\ stage.meta = "ok"
              /\ stage.fetch = "docs"
        /\ index' /= index =>
              /\ pc = "add"
              /\ stage.meta = "ok"
              /\ stage.fetch = "docs"
              /\ docs /= <<>>
              /\ index' = Append(index, [url |-> url, n |-> Len(docs)])
              /\ Recorded.status = "ok"
      ]_vars

\* C18 witness: a returned batch whose first item had no transcript and
\* whose second item was added; the index holds the second item only
StageFailureStopsWitness ==
    /\ pc = "done"
    /\ Len(urls) = 2
    /\ results[1].error_type = "no_transcript"
    /\ results[2].status = "ok"
    /\ calls[1].add = 0
    /\ index = <<[url |-> urls[2], n |-> results[2].chunks]>>

\* the attempts of the language fallback for the current video
DirectAttempts ==
    SelectSeq(tried, LAMBDA t : \E j \in 1..Len(LANGS) : t.strategy = LANGS[j])

\* C19: the language candidates are attempted in the order of LANGS, none
\* after an attempt that gave segments; and when the adapter has returned
\* an empty list although no attempt completed (with or without segments),
\* every candidate was attempted.
LanguageFallback ==
    /\ \A k \in 1..Len(DirectAttempts) : DirectAttempts[k].strategy = LANGS[k]
    /\ \A k \in 1..(Len(DirectAttempts) - 1) :
          DirectAttempts[k].result /= "segs"
    /\ /\ pc = "check"
       /\ docs = <<>>
       /\ \A k \in 1..Len(tried) : tried[k].result \notin {"segs", "empty"}
       => Len(DirectAttempts) = Len(LANGS)

-----------------------------------------------------------------------------
(* store.py: VectorStore.search *)

\* similarity_search_with_score(query, k=20)
K == 20

\* PineconeRerank(top_n=1)
TOP_N == 1

Queries == {"q1", "q2"}

\* page contents held by the index
Contents == {"c1", "c2", "c3"}

\* stage-1 similarity scores and reranker relevance scores, in hundredths;
\* the two scales share no value
SimScores == {71, 84}
RelScores == {12, 95}

\* what the index may answer: at most k pairs (Document, score) of distinct
\* documents, by descending similarity
RECURSIVE CandidateLists(_)
CandidateLists(n) ==
    IF n = 0 THEN { <<>> }
    ELSE LET shorter == CandidateLists(n - 1)
         IN  shorter \cup
             { Append(l, [doc |-> [page_content |-> c], score |-> sc]) :
                 l \in { x \in shorter : Len(x) = n - 1 },
                 c \in Contents, sc \in SimScores }

Stage1Answers ==
    { l \in CandidateLists(Min(K, MaxCandidates)) :
        /\ \A j, k \in 1..Len(l) : j < k =>
              /\ l[j].doc /= l[k].doc
              /\ l[j].score >= l[k].score }

\* what the reranker may answer to a list of documents: top_n of them at
\* most, each with its relevance_score in the metadata, best first
RECURSIVE RerankLists(_, _)
RerankLists(ds, n) ==
    IF n = 0 THEN { <<>> }
    ELSE LET shorter == RerankLists(ds, n - 1)
         IN  shorter \cup
             { Append(l, [page_content |-> ds[k].page_content,
                          relevance_score |-> r]) :
                 l \in { x \in shorter : Len(x) = n - 1 },
                 k \in 1..Len(ds), r \in RelScores }

RerankAnswers(ds) ==
    { l \in RerankLists(ds, Min(TOP_N, Len(ds))) :
        /\ Len(l) = Min(TOP_N, Len(ds))
        /\ \A j, k \in 1..Len(l) : j < k =>
              /\ l[j].page_content /= l[k].page_content
              /\ l[j].relevance_score >= l[k].relevance_score }

InitSearch ==
    /\ c_pc = "idle"
    /\ segments = <<>>
    /\ max_chars = MaxChars
    /\ overlap_chars = MaxOverlap
    /\ chunks = <<>>
    /\ docs = <<>>
    /\ duration = 0
    /\ IngestIdle
    /\ s_pc = "call"
    /\ query \in Queries
    /\ sim_results = <<>>
    /\ documents = <<>>
    /\ reranked_docs = <<>>
    /\ final_results = <<>>
    /\ rerank_calls = 0
    /\ ApiIdle
    /\ TextIdle
    /\ FolderIdle
    /\ BatchIdle

\* the test at line 60 under a mutation that never returns early
NoCandidatesNever(res) == FALSE

\* store.py line 60: if not results
NoCandidates(res) == res = <<>>

\* store.py lines 57-61: stage 1, and the early return on no candidates
SimilaritySearch ==
    /\ s_pc = "call"
    /\ \/ \E answer \in Stage1Answers :
             /\ sim_results' = answer
             /\ s_pc' = IF NoCandidates(answer) THEN "returned" ELSE "rerank"
       \/ /\ s_pc' = "raised"
          /\ UNCHANGED sim_results
    /\ UNCHANGED <<query, documents, reranked_docs, final_results, rerank_calls,
                   chunkVars, ingestVars, moreVars>>

\* line 64: documents = [doc for doc, _ in results]
DocumentsOf(res) == [k \in 1..Len(res) |-> res[k].doc]

\* lines 79-82 under a mutation that keeps the similarity score of the
\* candidate at the same position
FinalResultsKeepSimilarity(reranked, res) ==
    [k \in 1..Len(reranked) |->
        [doc |-> reranked[k], score |-> res[k].score]]

\* lines 79-82: (doc, doc.metadata.get('relevance_score', 0.0)) per document
FinalResults(reranked, res) ==
    [k \in 1..Len(reranked) |->
        [doc |-> reranked[k], score |-> reranked[k].relevance_score]]

\* store.py lines 63-94: stage 2 and the conversion to (Document, float)
Rerank ==
    /\ s_pc = "rerank"
    /\ documents' = DocumentsOf(sim_results)
    /\ rerank_calls' = rerank_calls + 1
    /\ \/ \E answer \in RerankAnswers(documents') :
             /\ reranked_docs' = answer
             /\ final_results' = FinalResults(answer, sim_results)
             /\ s_pc' = "returned"
       \/ /\ s_pc' = "raised"
          /\ UNCHANGED <<reranked_docs, final_results>>
    /\ UNCHANGED <<query, sim_results, chunkVars, ingestVars, moreVars>>

\* the next call of search
NextQuery ==
    /\ s_pc \in {"returned", "raised"}
    /\ \E q \in Queries : query' = q
    /\ s_pc' = "call"
    /\ sim_results' = <<>>
    /\ documents' = <<>>
    /\ reranked_docs' = <<>>
    /\ final_results' = <<>>
    /\ rerank_calls' = 0
    /\ UNCHANGED <<chunkVars, ingestVars, moreVars>>

NextSearch == SimilaritySearch \/ Rerank \/ NextQuery

SpecSearch == InitSearch /\ [][NextSearch]_vars

\* C9: a search whose stage 1 gave no candidates returns the empty list and
\* has not called the reranker; the reranker is only ever called on a
\* non-empty candidate list.
EmptyShortCircuit ==
    /\ s_pc = "returned" /\ sim_results = <<>> =>
          /\ final_results = <<>>
          /\ rerank_calls = 0
    /\ rerank_calls > 0 => sim_results /= <<>> /\ documents /= <<>>
    /\ s_pc = "rerank" => sim_results /= <<>>

\* C9 witness: a search that returned on an empty stage 1
EmptyShortCircuitWitness ==
    /\ s_pc = "returned"
    /\ sim_results = <<>>
    /\ rerank_calls = 0

\* C10: every returned score is the relevance score the reranker attached to
\* that document, never a stage-1 score; the reranker was handed the stage-1
\* documents without their scores.
RerankScoreReplaces ==
    /\ \A k \in 1..Len(final_results) :
          /\ final_results[k].doc = reranked_docs[k]
          /\ final_results[k].score = reranked_docs[k].relevance_score
          /\ final_results[k].score \in RelScores
          /\ final_results[k].score \notin SimScores
    /\ Len(final_results) = Len(reranked_docs)
    /\ rerank_calls > 0 =>
          /\ Len(documents) = Len(sim_results)
          /\ \A k \in 1..Len(documents) :
                documents[k] = [page_content |-> sim_results[k].doc.page_content]

\* C10 witness: the returned document is the second candidate of stage 1 and
\* carries the reranker's score
RerankScoreWitness ==
    /\ s_pc = "returned"
    /\ Len(sim_results) = 2
    /\ Len(final_results) = 1
    /\ final_results[1].doc.page_content = sim_results[2].doc.page_content
    /\ final_results[1].score = 95

-----------------------------------------------------------------------------
(* Chunker harness: inputs drawn in Init, each chunker applied once *)

\* time-ordered raw segments: starts are running sums of gaps
RECURSIVE SegLists(_)
SegLists(n) ==
    IF n = 0 THEN { <<>> }
    ELSE LET shorter == SegLists(n - 1)
         IN  shorter \cup
             { Append(l, [start |-> (IF l = <<>> THEN 0 ELSE l[Len(l)].start) + g,
                          text |-> t]) :
                 l \in { x \in shorter : Len(x) = n - 1 }, g \in Gaps, t \in Texts }

InitChunk ==
    /\ c_pc = "ready"
    /\ segments \in SegLists(MaxUnits)
    /\ max_chars \in 1..MaxChars
    /\ overlap_chars \in 0..MaxOverlap
    /\ chunks = <<>>
    /\ docs = <<>>
    /\ duration = 0
    /\ IngestIdle
    /\ SearchIdle
    /\ ApiIdle
    /\ TextIdle
    /\ FolderIdle
    /\ BatchIdle

Sentences == [k \in 1..Len(segments) |-> segments[k].text]

\* _fetch_youtube_transcript_chunks on fetched segments; OVERLAP is a
\* positive constant there
CallYtChunker ==
    /\ c_pc = "ready"
    /\ overlap_chars >= 1
    /\ docs' = TranscriptDocs(segments, max_chars, overlap_chars)
    /\ chunks' = [k \in 1..Len(docs') |-> docs'[k].page_content]
    /\ c_pc' = "yt"
    /\ UNCHANGED <<segments, max_chars, overlap_chars, duration>>
    /\ UNCHANGED <<ingestVars, searchVars, moreVars>>

\* _chunk_by_tokens(sentences, max_chars, overlap_chars)
CallChunkByTokens ==
    /\ c_pc = "ready"
    /\ chunks' = ChunkByTokens(Sentences, max_chars, overlap_chars)
    /\ c_pc' = "tokens"
    /\ UNCHANGED <<segments, max_chars, overlap_chars, docs, duration>>
    /\ UNCHANGED <<ingestVars, searchVars, moreVars>>

\* ingest_markdown_folder, lines 182-201, on the chunks of one file
AssignAnchors ==
    /\ c_pc = "tokens"
    /\ chunks /= <<>>
    /\ \E dur \in 0..MaxDuration, words \in Len(segments)..MaxWords :
          /\ duration' = MdDuration(dur, words)
          /\ docs' = MdDocs(chunks, dur, words)
    /\ c_pc' = "md"
    /\ UNCHANGED <<segments, max_chars, overlap_chars, chunks>>
    /\ UNCHANGED <<ingestVars, searchVars, moreVars>>

NextChunk == CallYtChunker \/ CallChunkByTokens \/ AssignAnchors

SpecChunk == InitChunk /\ [][NextChunk]_vars

\* the same harness with a positive overlap only, as every caller in the
\* repository passes (120)
InitOverlap == InitChunk /\ overlap_chars >= 1

SpecOverlap == InitOverlap /\ [][NextChunk]_vars

-----------------------------------------------------------------------------
(* Reading a chunk list back against the units it was built from *)

\* the ways of cutting n units into m non-empty consecutive groups, each a
\* sequence of group sizes
RECURSIVE Comps(_, _)
Comps(n, m) ==
    IF m = 0 THEN (IF n = 0 THEN { <<>> } ELSE {})
    ELSE UNION { { <<first>> \o c : c \in Comps(n - first, m - 1) } :
                    first \in 1..(n - m + 1) }

\* index of the unit that opens group k
RECURSIVE Opener(_, _)
Opener(c, k) == IF k = 1 THEN 1 ELSE Opener(c, k - 1) + c[k - 1]

Group(texts, c, k) == SubSeq(texts, Opener(c, k), Opener(c, k) + c[k] - 1)

\* the part of chunk ch that precedes its own units' text, separator removed
OverlapPrefix(ch, body) ==
    IF Len(ch) > Len(body) + 1 THEN SubSeq(ch, 1, Len(ch) - Len(body) - 1) ELSE <<>>

\* chunk k is its own units joined by single spaces, preceded by nothing or by
\* a suffix of the previous chunk (of at most limit characters when limit >= 0)
\* and one space
ChunkReads(texts, chs, c, k, limit) ==
    LET body == JoinSp(Group(texts, c, k))
        p == OverlapPrefix(chs[k], body)
    IN  \/ chs[k] = body
        \/ /\ k > 1
           /\ chs[k] = p \o <<" ">> \o body
           /\ p /= <<>>
           /\ IsSuffix(p, chs[k - 1])
           /\ limit >= 0 => Len(p) <= limit

\* the cuttings of the units under which every chunk reads back
Readings(texts, chs, limit) ==
    { c \in Comps(Len(texts), Len(chs)) :
        \A k \in 1..Len(chs) : ChunkReads(texts, chs, c, k, limit) }

Chunked == c_pc \in {"yt", "tokens"}

\* C5: every chunk is at most max_chars long, unless it holds a single unit
\* whose own text is longer than max_chars.
ChunkBound ==
    Chunked =>
        \A k \in 1..Len(chunks) :
            \/ Len(chunks[k]) <= max_chars
            \/ \E j \in 1..Len(Sentences) :
                  /\ Len(Sentences[j]) > max_chars
                  /\ \/ chunks[k] = Sentences[j]
                     \/ IsSuffix(<<" ">> \o Sentences[j], chunks[k])

\* C6: every chunk after the first is a suffix of the previous chunk of at
\* most overlap_chars characters followed by the text of its units, the
\* triggering unit first; with overlap_chars = 0 nothing is carried over.
OverlapCorrect ==
    Chunked => Readings(Sentences, chunks, overlap_chars) /= {}

\* C7: the units can be cut into consecutive groups, one per chunk, such that
\* each chunk is its group joined by single spaces behind an overlap prefix
\* taken from the previous chunk: nothing is lost, reordered or split.
NoDataLoss ==
    Chunked => Readings(Sentences, chunks, -1) /= {}

\* C7 witness: three units in two chunks, the second chunk carrying overlap
NoDataLossWitness ==
    /\ Chunked
    /\ Len(segments) = 3
    /\ Len(chunks) = 2
    /\ \E c \in Readings(Sentences, chunks, -1) :
          OverlapPrefix(chunks[2], JoinSp(Group(Sentences, c, 2))) /= <<>>

NonDecreasing(ds) ==
    \A k \in 1..(Len(ds) - 1) : ds[k].start_seconds <= ds[k + 1].start_seconds

-----------------------------------------------------------------------------
(* main.py: GET /search *)

\* main.py line 125: the number of characters a snippet keeps
SNIPPET_CHARS == 400

\* the marker appended to a cut snippet, main.py line 125
ELLIPSIS == <<".", ".", ".">>

\* line 125 under a mutation that cuts without marking the cut
SnippetUnmarked(c) == SubSeq(c, 1, Min(SNIPPET_CHARS, Len(c)))

\* main.py line 125:
\* doc.page_content[:400] + ("..." if len(doc.page_content) > 400 else "")
Snippet(c) ==
    SubSeq(c, 1, Min(SNIPPET_CHARS, Len(c)))
        \o (IF Len(c) > SNIPPET_CHARS THEN ELLIPSIS ELSE <<>>)

\* the characters of a page content of the index
ContentText(c) ==
    CASE c = "c1" -> <<"c", "1">>
      [] c = "c2" -> <<"c", "2">>
      [] c = "c3" -> <<"c", "3">>

\* main.py lines 115-128: one SearchResponseItem per returned pair, in the
\* order of the pairs
ResponseItems(pairs) ==
    [k \in 1..Len(pairs) |->
        [score |-> pairs[k].score,
         snippet |-> Snippet(ContentText(pairs[k].doc.page_content))]]

\* store.py line 53: def search(self, query) -- the parameters after self
SearchParams == <<"query">>

\* main.py line 110: vs.search(q, k=k) -- one positional argument and the
\* keyword k
CallPositional == <<"q">>
CallKeywords == {"k"}

\* Python's binding of a call to a signature without defaults, *args or
\* **kwargs: every keyword names a parameter not filled by position, and
\* every parameter is filled
Binds(params, positional, keywords) ==
    /\ Len(positional) <= Len(params)
    /\ keywords \subseteq
          { params[j] : j \in (Len(positional) + 1)..Len(params) }
    /\ Len(positional) + Cardinality(keywords) = Len(params)

\* what the external services do for the query of a request: whether each is
\* reachable, and the candidates stage 1 holds
Worlds ==
    [stage1_up : BOOLEAN, rerank_up : BOOLEAN, candidates : Stage1Answers]

\* the k values a client sends (6 is the default, main.py line 105)
RequestedK == {1, 6}

\* store.py lines 53-97: the ways VectorStore.search(query) ends in a world
SearchOutcomes(w) ==
    IF ~w.stage1_up THEN { [raised |-> TRUE, pairs |-> <<>>] }
    ELSE IF NoCandidates(w.candidates)
         THEN { [raised |-> FALSE, pairs |-> <<>>] }
    ELSE IF ~w.rerank_up THEN { [raised |-> TRUE, pairs |-> <<>>] }
    ELSE { [raised |-> FALSE, pairs |-> FinalResults(a, w.candidates)] :
              a \in RerankAnswers(DocumentsOf(w.candidates)) }

InitSearchApi ==
    /\ c_pc = "idle"
    /\ segments = <<>>
    /\ max_chars = MaxChars
    /\ overlap_chars = MaxOverlap
    /\ chunks = <<>>
    /\ docs = <<>>
    /\ duration = 0
    /\ IngestIdle
    /\ s_pc = "idle"
    /\ query \in Queries
    /\ sim_results = <<>>
    /\ documents = <<>>
    /\ reranked_docs = <<>>
    /\ final_results = <<>>
    /\ rerank_calls = 0
    /\ e_pc = "request"
    /\ e_k \in RequestedK
    /\ world \in Worlds
    /\ e_status = 0
    /\ e_body = <<>>
    /\ TextIdle
    /\ FolderIdle
    /\ BatchIdle

\* the handler ends in an exception: main.py lines 139-141 log and re-raise,
\* and the framework answers 500
SearchRaises ==
    /\ e_pc' = "raised"
    /\ e_status' = 500
    /\ e_body' = <<>>
    /\ UNCHANGED final_results

\* main.py lines 104-141: the whole handler of GET /search.  The call at
\* line 110 is bound to the signature at store.py line 53 before any
\* statement of VectorStore.search runs; a call that does not bind raises
\* TypeError.
SearchEndpoint ==
    /\ e_pc = "request"
    /\ IF ~Binds(SearchParams, CallPositional, CallKeywords)
       THEN SearchRaises
       ELSE \E o \in SearchOutcomes(world) :
               IF o.raised
               THEN SearchRaises
               ELSE /\ final_results' = o.pairs
                    /\ e_body' = ResponseItems(o.pairs)
                    /\ e_status' = 200
                    /\ e_pc' = "responded"
    /\ UNCHANGED <<e_k, world, s_pc, query, sim_results, documents,
                   reranked_docs, rerank_calls, chunkVars, ingestVars,
                   textVars, folderVars, batchVars>>

NextSearchApi == SearchEndpoint

SpecSearchApi == InitSearchApi /\ [][NextSearchApi]_vars

\* C11: a request that is over, in a world where stage 1 holds at least one
\* candidate and both services answer, was answered with status 200 and the
\* items are the pairs VectorStore.search returned, one item per pair in the
\* same order.
SearchKeepsRerankOrder ==
    /\ e_pc /= "request"
    /\ world.stage1_up
    /\ world.rerank_up
    /\ world.candidates /= <<>>
    => /\ e_pc = "responded"
       /\ e_status = 200
       /\ final_results \in
             { o.pairs : o \in { x \in SearchOutcomes(world) : ~x.raised } }
       /\ e_body = ResponseItems(final_results)

-----------------------------------------------------------------------------
(* ingest.py: _extract_header_url *)

\* position of the first ch in s, 0 when there is none
FirstIndex(s, ch) ==
    IF \E k \in 1..Len(s) : s[k] = ch
    THEN CHOOSE k \in 1..Len(s) :
            /\ s[k] = ch
            /\ \A j \in 1..(k - 1) : s[j] /= ch
    ELSE 0

\* str.splitlines(): the lines without their terminators; a terminator at
\* the very end opens no further line
RECURSIVE SplitLines(_)
SplitLines(s) ==
    IF s = <<>> THEN <<>>
    ELSE LET p == FirstIndex(s, NL)
         IN  IF p = 0 THEN <<s>>
             ELSE <<SubSeq(s, 1, p - 1)>> \o SplitLines(SubSeq(s, p + 1, Len(s)))

\* "\n".join(lines)
RECURSIVE JoinNl(_)
JoinNl(lines) ==
    IF lines = <<>> THEN <<>>
    ELSE IF Len(lines) = 1 THEN lines[1]
    ELSE lines[1] \o <<NL>> \o JoinNl(Tail(lines))

\* str.lower(), on the letters of the model
LowerChar(ch) ==
    CASE ch = "Y" -> "y"
      [] ch = "U" -> "u"
      [] ch = "R" -> "r"
      [] ch = "L" -> "l"
      [] OTHER -> ch

Lower(s) == [k \in 1..Len(s) |-> LowerChar(s[k])]

\* str.startswith(prefix)
StartsWith(s, prefix) ==
    /\ Len(s) >= Len(prefix)
    /\ SubSeq(s, 1, Len(prefix)) = prefix

\* the delimiter line and the key of the header, lines 241-248
DELIM == <<"-", "-", "-">>
KEY == <<"y", "o", "u", "t", "u", "b", "e", "_", "u", "r", "l", ":">>

\* line 242: the loop looks for the closing delimiter at the 0-based
\* positions 1 .. min(30, len(lines)) - 1
HEADER_SCAN == 30

\* line 249: hl.split(":", 1)[1].strip(), for a line that holds a colon
KeyValue(hl) == Strip(SubSeq(hl, FirstIndex(hl, ":") + 1, Len(hl)))

\* Python's None where a URL text is expected: no text is equal to it
NoUrl == <<"None">>

\* lines 246-250: the value of the first header line that starts with the
\* key, None without such a line
RECURSIVE HeaderUrl(_)
HeaderUrl(hls) ==
    IF hls = <<>> THEN NoUrl
    ELSE IF StartsWith(Lower(Head(hls)), KEY) THEN KeyValue(Head(hls))
    ELSE HeaderUrl(Tail(hls))

\* line 241 under a mutation that accepts a text of two lines
HasOpenerFromTwoLines(lines) ==
    /\ Len(lines) >= 2
    /\ Strip(lines[1]) = DELIM

\* line 241: if len(lines) >= 3 and lines[0].strip() == "---"
HasOpener(lines) ==
    /\ Len(lines) >= 3
    /\ Strip(lines[1]) = DELIM

\* lines 242-243: the 0-based positions at which the loop finds a delimiter
Closers(lines) ==
    { i \in 1..(Min(HEADER_SCAN, Len(lines)) - 1) : Strip(lines[i + 1]) = DELIM }

\* _extract_header_url(raw), lines 229-252
ExtractHeaderUrl(text) ==
    LET lines == SplitLines(text)
    IN  IF HasOpener(lines) /\ Closers(lines) /= {}
        THEN LET i == CHOOSE c \in Closers(lines) :
                         \A d \in Closers(lines) : c <= d
                 header == JoinNl(SubSeq(lines, 2, i))
                 body == JoinNl(SubSeq(lines, i + 2, Len(lines)))
             IN  [yt |-> HeaderUrl(SplitLines(header)), body |-> body]
        ELSE [yt |-> NoUrl, body |-> text]

-----------------------------------------------------------------------------
(* ingest.py: _naive_sentence_split *)

\* the characters of the lookbehind of SENTENCE_REGEX, line 282
SentenceEnds == {".", "!", "?"}

\* the positions at which (?<=[.!?])\s+ matches in s: a whitespace character
\* right after a sentence end
MatchStarts(s) ==
    { p \in 2..Len(s) : s[p] \in Whitespace /\ s[p - 1] \in SentenceEnds }

\* the last position of the run of whitespace that starts at p
RECURSIVE RunEnd(_, _)
RunEnd(s, p) ==
    IF p < Len(s) /\ s[p + 1] \in Whitespace THEN RunEnd(s, p + 1) ELSE p

\* SENTENCE_REGEX.split(text), line 264: the texts between the matches,
\* each match taking its whole run of whitespace
RECURSIVE RegexSplit(_)
RegexSplit(s) ==
    IF MatchStarts(s) = {} THEN <<s>>
    ELSE LET p == CHOOSE c \in MatchStarts(s) : \A d \in MatchStarts(s) : c <= d
             q == RunEnd(s, p)
         IN  <<SubSeq(s, 1, p - 1)>> \o RegexSplit(SubSeq(s, q + 1, Len(s)))

\* line 272: a buffer shorter than this takes the next fragment
SENTENCE_MIN == 60

\* the loop body under a mutation that flushes a buffer one character early
MergeStepFlushesEarly(st, fragment) ==
    LET part == Strip(fragment)
    IN  IF part = <<>> THEN st
        ELSE IF Len(st.buf) < SENTENCE_MIN - 1
             THEN [st EXCEPT !.buf = Strip(st.buf \o <<" ">> \o part)]
        ELSE [merged |-> IF st.buf /= <<>> THEN Append(st.merged, st.buf)
                                           ELSE st.merged,
              buf |-> part]

\* one iteration of the loop at lines 268-277
MergeStep(st, fragment) ==
    LET part == Strip(fragment)
    IN  IF part = <<>> THEN st
        ELSE IF Len(st.buf) < SENTENCE_MIN
             THEN [st EXCEPT !.buf = Strip(st.buf \o <<" ">> \o part)]
        ELSE [merged |-> IF st.buf /= <<>> THEN Append(st.merged, st.buf)
                                           ELSE st.merged,
              buf |-> part]

RECURSIVE MergeLoop(_, _)
MergeLoop(st, parts) ==
    IF parts = <<>> THEN st
    ELSE MergeLoop(MergeStep(st, Head(parts)), Tail(parts))

\* _naive_sentence_split(text), lines 255-279
NaiveSentenceSplit(text) ==
    LET stripped == Strip(text)
    IN  IF stripped = <<>> THEN <<>>
        ELSE LET st == MergeLoop([merged |-> <<>>, buf |-> <<>>],
                                 RegexSplit(stripped))
             IN  IF st.buf /= <<>> THEN Append(st.merged, st.buf) ELSE st.merged

-----------------------------------------------------------------------------
(* Text functions, each called once on a drawn text *)

\* a text of n characters whose character at position k depends on k
PatternText(n, shift) ==
    [k \in 1..n |-> <<"a", "b", "c">>[((k + shift) % 3) + 1]]

\* lengths of page contents around the snippet limit
ContentLens == {0, 1, 300, 399, 400, 401, 403, 500}

SnippetInputs == { PatternText(n, shift) : n \in ContentLens, shift \in 0..2 }

\* the lines texts with a header are built from: the delimiter, bare and
\* padded, two spellings of the key, a blank line and a line of body
HeaderLines ==
    { <<"-", "-", "-">>,
      <<"-", "-", "-", " ">>,
      <<"y", "o", "u", "t", "u", "b", "e", "_", "u", "r", "l", ":", " ", "h", ":", "x">>,
      <<"Y", "o", "u", "t", "u", "b", "e", "_", "U", "R", "L", ":", "v", " ">>,
      <<>>,
      <<"B", "o", "d", "y", ".">> }

RECURSIVE LineLists(_)
LineLists(n) ==
    IF n = 0 THEN { <<>> }
    ELSE LET shorter == LineLists(n - 1)
         IN  shorter \cup
             { Append(l, x) : l \in { y \in shorter : Len(y) = n - 1 },
                              x \in HeaderLines }

\* a header of n lines between its delimiters, followed by a line of body
LongHeader(n) ==
    JoinNl(<<DELIM>> \o [k \in 1..n |-> <<"t">>] \o <<DELIM, <<"B", "o", "d", "y", ".">>>>)

\* texts of up to MaxLines lines, with and without a final line terminator,
\* and headers that close at the lines 29, 30 and 31
HeaderInputs ==
    { JoinNl(l) : l \in LineLists(MaxLines) }
        \cup { JoinNl(l) \o <<NL>> : l \in LineLists(MaxLines) }
        \cup { LongHeader(n) : n \in {27, 28, 29} }

\* fragments a body is built from: short sentences, a sentence with a
\* sentence end inside a word, a fragment without a sentence end, and
\* sentences of 59 and 60 characters
Fragments ==
    { <<"H", "i", ".">>,
      <<"G", "o", " ", "o", "n", "!">>,
      <<"a", ".", "b", "?">>,
      <<"n", "o", " ", "e", "n", "d">>,
      PatternText(58, 0) \o <<".">>,
      PatternText(59, 1) \o <<".">> }

\* what separates two fragments in a body
Separators == { <<" ">>, <<" ", NL>> }

RECURSIVE Bodies(_)
Bodies(n) ==
    IF n = 0 THEN { <<>> }
    ELSE IF n = 1 THEN { <<>> } \cup Fragments
    ELSE LET shorter == Bodies(n - 1)
         IN  shorter \cup
             { b \o sep \o f : b \in shorter \ { <<>> }, sep \in Separators,
                               f \in Fragments }

\* bodies of up to MaxFrags fragments, whitespace alone, and a padded body
SplitInputs ==
    Bodies(MaxFrags)
        \cup { <<" ">>, <<NL, " ", NL>>, <<" ", "H", "i", ".", " ", "\n">> }

TextInputs == SnippetInputs \cup HeaderInputs \cup SplitInputs

InitText ==
    /\ c_pc = "idle"
    /\ segments = <<>>
    /\ max_chars = MaxChars
    /\ overlap_chars = MaxOverlap
    /\ chunks = <<>>
    /\ docs = <<>>
    /\ duration = 0
    /\ IngestIdle
    /\ SearchIdle
    /\ ApiIdle
    /\ t_pc = "ready"
    /\ raw \in TextInputs
    /\ t_out = <<>>
    /\ FolderIdle
    /\ BatchIdle

\* main.py line 125 on the page content of one returned document
CallSnippet ==
    /\ t_pc = "ready"
    /\ t_out' = Snippet(raw)
    /\ t_pc' = "snippet"
    /\ UNCHANGED <<raw, chunkVars, ingestVars, searchVars, apiVars, folderVars,
                   batchVars>>

\* _extract_header_url(raw)
CallExtractHeader ==
    /\ t_pc = "ready"
    /\ t_out' = ExtractHeaderUrl(raw)
    /\ t_pc' = "header"
    /\ UNCHANGED <<raw, chunkVars, ingestVars, searchVars, apiVars, folderVars,
                   batchVars>>

\* _naive_sentence_split(text)
CallSentenceSplit ==
    /\ t_pc = "ready"
    /\ t_out' = NaiveSentenceSplit(raw)
    /\ t_pc' = "split"
    /\ UNCHANGED <<raw, chunkVars, ingestVars, searchVars, apiVars, folderVars,
                   batchVars>>

NextText == CallSnippet \/ CallExtractHeader \/ CallSentenceSplit

SpecText == InitText /\ [][NextText]_vars

\* C12: the snippet of a content of at most 400 characters is the content;
\* the snippet of a longer content is its first 400 characters followed by
\* the three characters of the marker; no snippet is longer than 403.
SnippetTruncation ==
    t_pc = "snippet" =>
        /\ Len(raw) <= 400 => t_out = raw
        /\ Len(raw) > 400 =>
              /\ Len(t_out) = 403
              /\ \A k \in 1..400 : t_out[k] = raw[k]
              /\ \A k \in 401..403 : t_out[k] = "."
        /\ Len(t_out) <= 403

\* C12 witness: a content of 500 characters was cut to 403
SnippetTruncationWitness ==
    /\ t_pc = "snippet"
    /\ Len(raw) = 500
    /\ Len(t_out) = 403

\* the value at the smallest position of a non-empty set of positions
Least(S) == CHOOSE c \in S : \A d \in S : c <= d

\* what the header contract gives for a text when a header needs at least
\* minLines lines: with a first line --- and a second --- line within the
\* first 30 lines, the value of the first header line that starts with the
\* key (none without one) and the lines after the closing delimiter; for
\* every other text, no URL and the text itself
HeaderContract(text, minLines) ==
    LET ls == SplitLines(text)
        closing == { c \in 2..Min(30, Len(ls)) : Strip(ls[c]) = DELIM }
    IN  IF Len(ls) >= minLines /\ Strip(ls[1]) = DELIM /\ closing /= {}
        THEN LET c == Least(closing)
                 keys == { j \in 2..(c - 1) : StartsWith(Lower(ls[j]), KEY) }
             IN  [yt |-> IF keys = {} THEN NoUrl ELSE KeyValue(ls[Least(keys)]),
                  body |-> JoinNl(SubSeq(ls, c + 1, Len(ls)))]
        ELSE [yt |-> NoUrl, body |-> text]

\* C13 as stated: every text whose first line is --- and which has a second
\* --- line within its first 30 lines is read as header and body; every
\* other text is returned unchanged with no URL.
HeaderExtraction ==
    t_pc = "header" => t_out = HeaderContract(raw, 1)

\* C13 amended: the same for texts of at least three lines; a text of fewer
\* than three lines is returned unchanged with no URL, two delimiter lines
\* included.
HeaderExtractionFromThreeLines ==
    t_pc = "header" => t_out = HeaderContract(raw, 3)

\* C13 witness: a header that declares a URL was cut off a one-line body
HeaderExtractionWitness ==
    /\ t_pc = "header"
    /\ Len(SplitLines(raw)) = 4
    /\ t_out.yt = <<"h", ":", "x">>
    /\ t_out.body = <<"B", "o", "d", "y", ".">>

\* the non-empty trimmed fragments of the regex split of a stripped text
TrimmedFragments(text) ==
    LET parts == [k \in 1..Len(RegexSplit(Strip(text))) |->
                     Strip(RegexSplit(Strip(text))[k])]
    IN  SelectSeq(parts, LAMBDA x : x /= <<>>)

\* C20: every returned sentence but the last has at least 60 characters, no
\* returned sentence is empty, the returned sentences joined by single
\* spaces are the non-empty trimmed fragments of the regex split joined by
\* single spaces, and a text that is empty or only whitespace gives the
\* empty list.
SentenceMerging ==
    t_pc = "split" =>
        /\ \A k \in 1..(Len(t_out) - 1) : Len(t_out[k]) >= 60
        /\ \A k \in 1..Len(t_out) : t_out[k] /= <<>>
        /\ JoinSp(t_out) = JoinSp(TrimmedFragments(raw))
        /\ Strip(raw) = <<>> => t_out = <<>>

\* C20 witness: three fragments gave two sentences, the first one merged
\* from two fragments
SentenceMergingWitness ==
    /\ t_pc = "split"
    /\ Len(TrimmedFragments(raw)) = 3
    /\ Len(t_out) = 2
    /\ Len(t_out[1]) > 60

-----------------------------------------------------------------------------
(* ingest.py: ingest_markdown_folder *)

\* len(body.split()), line 184: the number of runs of characters that are
\* not whitespace
WordCount(text) ==
    Cardinality({ k \in 1..Len(text) :
                    /\ text[k] \notin Whitespace
                    /\ k = 1 \/ text[k - 1] \in Whitespace })

\* the .md files a folder may hold
Files == {"blank.md", "rule.md", "linked.md", "header.md", "plain.md",
          "long.md"}

\* the header that links a file to a video
LinkHeader == <<"-", "-", "-", "\n", "y", "o", "u", "t", "u", "b", "e", "_", "u", "r", "l", ":", " ", "h", ":", "x", "\n", "-", "-", "-", "\n">>

\* the number of sentences of the long file
LongSentences == 10

\* a body of LongSentences sentences of 60 characters
LongBody == JoinSp([k \in 1..LongSentences |-> PatternText(59, k) \o <<".">>])

\* what open(path).read() gives for each file: whitespace only, two
\* delimiter lines, a linked file of two short sentences, a header and
\* nothing else, two sentences without header, and a linked file of
\* LongSentences sentences
RawOf(name) ==
    CASE name = "blank.md" -> <<" ", NL>>
      [] name = "rule.md" -> <<"-", "-", "-", "\n", "-", "-", "-">>
      [] name = "linked.md" -> LinkHeader \o <<"H", "i", ".", " ", "G", "o", " ", "o", "n", "!">>
      [] name = "header.md" -> LinkHeader
      [] name = "plain.md" -> PatternText(59, 0) \o <<".", " ", "G", "o", " ", "o", "n", "!">>
      [] name = "long.md" -> LinkHeader \o LongBody

\* the lists of up to n distinct files
RECURSIVE FileLists(_)
FileLists(n) ==
    IF n = 0 THEN { <<>> }
    ELSE LET shorter == FileLists(n - 1)
         IN  shorter \cup
             { Append(l, f) : l \in { x \in shorter : Len(x) = n - 1 },
                              f \in Files }

\* durations, in seconds, the metadata service may report (line 52 of yt.py
\* makes an integer of it)
ReportedDurations == {-2, 0, 7, 90}

\* how a call of _get_video_metadata may end
MetaAnswers ==
    { [raised |-> TRUE, dur |-> 0] }
        \cup { [raised |-> FALSE, dur |-> d] : d \in ReportedDurations }

\* lines 143-144, 160 and 180-184 for each file, whose results depend on
\* the text of the file alone: whether the header links a video
\* (if youtube_url), the sentences of the body, the chunks of
\* _chunk_by_tokens(sentences, max_chars=800, overlap_chars=120) under the
\* budgets of the model, and the number of words of the body
Parsed ==
    [name \in Files |->
        LET hb == ExtractHeaderUrl(RawOf(name))
            sentences == NaiveSentenceSplit(hb.body)
        IN  [linked |-> hb.yt /= NoUrl /\ hb.yt /= <<>>,
             sentences |-> sentences,
             chunks |-> ChunkByTokens(sentences, MaxChars, MaxOverlap),
             words |-> WordCount(hb.body)]]

InitFolder ==
    /\ c_pc = "idle"
    /\ segments = <<>>
    /\ max_chars = MaxChars
    /\ overlap_chars = MaxOverlap
    /\ chunks = <<>>
    /\ docs = <<>>
    /\ duration = 0
    /\ IngestIdle
    /\ SearchIdle
    /\ ApiIdle
    /\ TextIdle
    /\ f_pc = "start"
    /\ md_files \in { l \in FileLists(MaxFiles) :
                        \A j, k \in 1..Len(l) : j /= k => l[j] /= l[k] }
    /\ file_i = 1
    /\ ingested = <<>>
    /\ f_log = <<>>
    /\ BatchIdle

\* the log entry of a file that could not be read
Unread ==
    [read |-> FALSE, linked |-> FALSE, meta |-> "none", reported |-> 0,
     sentences |-> 0, words |-> 0, n |-> 0, duration |-> 0, starts |-> <<>>,
     add |-> "none"]

\* lines 123-126: the folder is looked up
ScanFolder ==
    /\ f_pc = "start"
    /\ \E found \in BOOLEAN :
          IF found
          THEN /\ f_pc' = "files"
               /\ UNCHANGED ingested
          ELSE /\ ingested' = <<[folder |-> "folder", status |-> "error",
                                 error |-> "folder not found"]>>
               /\ f_pc' = "done"
    /\ UNCHANGED <<md_files, file_i, f_log, chunkVars, ingestVars, searchVars,
                   apiVars, textVars, batchVars>>

\* line 164 under a mutation that gives up on the folder at an empty file
AfterEmptyStops(i) == Len(md_files) + 1

\* line 164: continue -- the loop goes on with the next file
AfterEmpty(i) == i + 1

\* lines 137-211: the body of the loop for one file, from the read to the
\* appended outcome
IngestFile ==
    /\ f_pc = "files"
    /\ file_i <= Len(md_files)
    /\ \E readable \in BOOLEAN, meta \in MetaAnswers, added \in BOOLEAN :
          LET path == md_files[file_i]
              linked == Parsed[path].linked
              reported == IF linked /\ ~meta.raised THEN meta.dur ELSE 0
              sentences == Parsed[path].sentences
              chs == Parsed[path].chunks
              words == Parsed[path].words
              ds == MdDocs(chs, reported, words)
              entry == [read |-> TRUE, linked |-> linked,
                        meta |-> IF ~linked THEN "none"
                                 ELSE IF meta.raised THEN "exc" ELSE "ok",
                        reported |-> reported,
                        sentences |-> Len(sentences), words |-> words,
                        n |-> 0, duration |-> 0, starts |-> <<>>,
                        add |-> "none"]
          IN  IF ~readable
              THEN /\ ingested' = Append(ingested,
                          [file |-> path, status |-> "error",
                           error |-> "read failed"])
                   /\ f_log' = Append(f_log, Unread)
                   /\ file_i' = file_i + 1
                   /\ UNCHANGED index
              ELSE IF sentences = <<>>
              THEN /\ ingested' = Append(ingested,
                          [file |-> path, status |-> "empty"])
                   /\ f_log' = Append(f_log, entry)
                   /\ file_i' = AfterEmpty(file_i)
                   /\ UNCHANGED index
              ELSE /\ ingested' = Append(ingested,
                          IF added
                          THEN [file |-> path, status |-> "ok",
                                chunks |-> Len(ds)]
                          ELSE [file |-> path, status |-> "error",
                                error |-> "add failed"])
                   /\ f_log' = Append(f_log,
                          [entry EXCEPT
                             !.n = Len(chs),
                             !.duration = MdDuration(reported, words),
                             !.starts = [k \in 1..Len(ds) |->
                                            ds[k].start_seconds],
                             !.add = IF added THEN "ok" ELSE "exc"])
                   /\ index' = IF added THEN add_documents(index, path, ds)
                               ELSE index
                   /\ file_i' = file_i + 1
    /\ UNCHANGED <<f_pc, md_files, pc, urls, url_i, results, video, lang_i,
                   tried, stage, history, calls, chunkVars, searchVars, apiVars,
                   textVars, batchVars>>

\* lines 213-227: the walk is over, return ingested
ReturnIngested ==
    /\ f_pc = "files"
    /\ file_i > Len(md_files)
    /\ f_pc' = "done"
    /\ UNCHANGED <<md_files, file_i, ingested, f_log, chunkVars, ingestVars,
                   searchVars, apiVars, textVars, batchVars>>

NextFolder == ScanFolder \/ IngestFile \/ ReturnIngested

SpecFolder == InitFolder /\ [][NextFolder]_vars

\* C14: a file whose documents were built has its anchors spread over the
\* duration the metadata service reported when that is positive, and over
\* floor(words * 3 / 8) otherwise; document i of n (0-based) is anchored at
\* floor(i * duration / n), never below 0, the first one at 0; a file is not
\* kept from being ingested by a missing duration.
AnchorFormula ==
    \A k \in 1..Len(f_log) :
        f_log[k].add /= "none" =>
            /\ f_log[k].duration =
                  IF f_log[k].meta = "ok" /\ f_log[k].reported > 0
                  THEN f_log[k].reported
                  ELSE (f_log[k].words * 3) \div 8
            /\ Len(f_log[k].starts) = f_log[k].n
            /\ \A j \in 1..f_log[k].n :
                  /\ f_log[k].starts[j] =
                        ((j - 1) * f_log[k].duration) \div f_log[k].n
                  /\ f_log[k].starts[j] >= 0
            /\ f_log[k].starts[1] = 0
            /\ f_log[k].add = "ok" => ingested[k].status = "ok"

\* the folder was found: no outcome is the folder's own
FolderFound == \A k \in 1..Len(ingested) : "file" \in DOMAIN ingested[k]

\* the positions of the files handled so far whose outcome is ok
OkFiles == { k \in 1..Len(ingested) : ingested[k].status = "ok" }

\* C15: for a folder that exists there is one outcome per file handled, in
\* the order of discovery, and on return one per discovered file; the
\* outcome is empty exactly when the file was read and its body gave no
\* sentence, error exactly when the read or the index add raised, ok
\* otherwise; the index holds one add per ok file and none for any other
\* file, so a file that is empty or in error stops nothing after it.
FolderOutcomes ==
    FolderFound =>
        /\ Len(ingested) = Len(f_log)
        /\ f_pc /= "start" => Len(ingested) = file_i - 1
        /\ file_i <= Len(md_files) + 1
        /\ f_pc = "done" => Len(ingested) = Len(md_files)
        /\ \A k \in 1..Len(ingested) :
              /\ ingested[k].file = md_files[k]
              /\ ingested[k].status = "empty" <=>
                    f_log[k].read /\ f_log[k].sentences = 0
              /\ ingested[k].status = "error" <=>
                    ~f_log[k].read \/ f_log[k].add = "exc"
              /\ ingested[k].status = "ok" <=>
                    /\ f_log[k].read
                    /\ f_log[k].sentences > 0
                    /\ f_log[k].add = "ok"
              /\ ingested[k].status \in {"ok", "empty", "error"}
        /\ Len(index) = Cardinality(OkFiles)
        /\ \A j \in 1..Len(index) :
              \E k \in OkFiles :
                  /\ index[j].url = ingested[k].file
                  /\ index[j].n = ingested[k].chunks

\* C15 witness: a returned folder of two files, the first one empty and the
\* second one ingested
FolderOutcomesWitness ==
    /\ f_pc = "done"
    /\ Len(ingested) = 2
    /\ ingested[1].status = "empty"
    /\ ingested[2].status = "ok"
    /\ Len(index) = 1

-----------------------------------------------------------------------------
(* ingest.py: two calls of ingest_youtube_urls running at the same time, as  *)
(* two requests handled by two worker threads.  Every call has its own       *)
(* locals; the index behind vs is the one thing both write.                  *)

Batches == {1, 2}

\* the arguments of a call
BatchLists == { <<>>, <<"u1">>, <<"u1", "u2">>, <<"u2", "u2">> }

\* the Document lists _fetch_youtube_transcript_chunks may hand over
ChunkLists == { TranscriptDocs(r, MaxChars, MaxOverlap) : r \in RawTranscripts }

InitBatches ==
    /\ c_pc = "idle"
    /\ segments = <<>>
    /\ max_chars = MaxChars
    /\ overlap_chars = MaxOverlap
    /\ chunks = <<>>
    /\ docs = <<>>
    /\ duration = 0
    /\ IngestIdle
    /\ SearchIdle
    /\ ApiIdle
    /\ TextIdle
    /\ FolderIdle
    /\ b_pc = [b \in Batches |-> "metadata"]
    /\ b_urls \in [Batches -> BatchLists]
    /\ b_i = [b \in Batches |-> 1]
    /\ b_results = [b \in Batches |-> <<>>]
    /\ b_chunks = [b \in Batches |-> <<>>]
    /\ b_log = [b \in Batches |-> <<>>]

\* the list a call appends its outcomes to, under a mutation that makes
\* results a module-level list
ResultsOfModule(b) == 1

\* ingest.py line 24: results = [] is a local of the call
ResultsOf(b) == b

\* the log entry of an item whose metadata fetch raised: no transcript was
\* asked for and nothing was added
NoAnswer == [meta |-> "exc", docs |-> <<>>, add |-> "none"]

\* results.append(outcome) and the end of the loop body in call b
BatchFinishItem(b, outcome, answer) ==
    /\ b_results' = [b_results EXCEPT ![ResultsOf(b)] = Append(@, outcome)]
    /\ b_log' = [b_log EXCEPT ![b] = Append(@, answer)]
    /\ b_i' = [b_i EXCEPT ![b] = @ + 1]
    /\ b_pc' = [b_pc EXCEPT ![b] = "metadata"]
    /\ b_chunks' = [b_chunks EXCEPT ![b] = <<>>]

\* ingest.py lines 29-43 in call b
BatchMetadata(b) ==
    /\ b_pc[b] = "metadata"
    /\ b_i[b] <= Len(b_urls[b])
    /\ \E ok \in BOOLEAN :
          IF ok
          THEN /\ b_pc' = [b_pc EXCEPT ![b] = "transcript"]
               /\ UNCHANGED <<b_i, b_results, b_chunks, b_log>>
          ELSE BatchFinishItem(b,
                   ErrorOutcome(b_urls[b][b_i[b]], "metadata_fetch_failed"),
                   NoAnswer)
    /\ UNCHANGED <<b_urls, chunkVars, ingestVars, searchVars, apiVars,
                   textVars, folderVars>>

\* ingest.py lines 46-78 in call b
BatchTranscript(b) ==
    /\ b_pc[b] = "transcript"
    /\ \E ds \in ChunkLists :
          IF TranscriptError(ds) /= ""
          THEN BatchFinishItem(b,
                   ErrorOutcome(b_urls[b][b_i[b]], TranscriptError(ds)),
                   [meta |-> "ok", docs |-> ds, add |-> "none"])
          ELSE /\ b_chunks' = [b_chunks EXCEPT ![b] = ds]
               /\ b_pc' = [b_pc EXCEPT ![b] = "add"]
               /\ UNCHANGED <<b_i, b_results, b_log>>
    /\ UNCHANGED <<b_urls, chunkVars, ingestVars, searchVars, apiVars,
                   textVars, folderVars>>

\* ingest.py lines 81-95 in call b
BatchAdd(b) ==
    /\ b_pc[b] = "add"
    /\ \E ok \in BOOLEAN :
          /\ index' = IF ok
                       THEN add_documents(index, b_urls[b][b_i[b]], b_chunks[b])
                       ELSE index
          /\ BatchFinishItem(b,
                 AddOutcome(b_urls[b][b_i[b]], ok, Len(b_chunks[b])),
                 [meta |-> "ok", docs |-> b_chunks[b],
                  add |-> IF ok THEN "ok" ELSE "exc"])
    /\ UNCHANGED <<b_urls, pc, urls, url_i, results, video, lang_i, tried,
                   stage, history, calls, chunkVars, searchVars, apiVars,
                   textVars, folderVars>>

\* ingest.py lines 107-111 in call b
BatchReturn(b) ==
    /\ b_pc[b] = "metadata"
    /\ b_i[b] > Len(b_urls[b])
    /\ b_pc' = [b_pc EXCEPT ![b] = "done"]
    /\ UNCHANGED <<b_urls, b_i, b_results, b_chunks, b_log, chunkVars,
                   ingestVars, searchVars, apiVars, textVars, folderVars>>

NextBatches ==
    \E b \in Batches :
        \/ BatchMetadata(b)
        \/ BatchTranscript(b)
        \/ BatchAdd(b)
        \/ BatchReturn(b)

SpecBatches == InitBatches /\ [][NextBatches]_vars

\* ingest.py lines 27-95: the outcome of one item of a call running alone,
\* given what the services answer for it
AloneOutcome(u, answer) ==
    IF answer.meta = "exc" THEN ErrorOutcome(u, "metadata_fetch_failed")
    ELSE IF TranscriptError(answer.docs) /= ""
         THEN ErrorOutcome(u, TranscriptError(answer.docs))
    ELSE AddOutcome(u, answer.add = "ok", Len(answer.docs))

\* the outcome list of a call running alone, for the items answered so far
AloneResults(us, log) ==
    [k \in 1..Len(log) |-> AloneOutcome(us[k], log[k])]

\* what a call running alone adds to an empty index
RECURSIVE AloneIndex(_, _, _)
AloneIndex(us, log, k) ==
    IF k > Len(log) THEN <<>>
    ELSE IF AloneOutcome(us[k], log[k]).status = "ok"
         THEN add_documents(<<>>, us[k], log[k].docs)
              \o AloneIndex(us, log, k + 1)
    ELSE AloneIndex(us, log, k + 1)

\* s is a and b merged, each in its own order
RECURSIVE IsShuffle(_, _, _)
IsShuffle(s, a, b) ==
    IF s = <<>> THEN a = <<>> /\ b = <<>>
    ELSE \/ /\ a /= <<>>
            /\ Head(a) = Head(s)
            /\ IsShuffle(Tail(s), Tail(a), b)
         \/ /\ b /= <<>>
            /\ Head(b) = Head(s)
            /\ IsShuffle(Tail(s), a, Tail(b))

\* C21: however the steps of two calls interleave, the outcome list of each
\* call holds one record per URL it has handled, for that URL, and is the
\* list the call builds running alone on the same answers; on return it
\* holds one record per URL of the call; and the index holds what the two
\* calls add running alone, merged, each call's entries in its own order.
NoInterference ==
    /\ \A b \in Batches :
          /\ Len(b_results[b]) = b_i[b] - 1
          /\ Len(b_log[b]) = b_i[b] - 1
          /\ \A k \in 1..Len(b_results[b]) :
                b_results[b][k].url = b_urls[b][k]
          /\ b_results[b] = AloneResults(b_urls[b], b_log[b])
          /\ b_pc[b] = "done" => Len(b_results[b]) = Len(b_urls[b])
    /\ IsShuffle(index, AloneIndex(b_urls[1], b_log[1], 1),
                        AloneIndex(b_urls[2], b_log[2], 1))

\* C21 witness: two calls of two URLs have returned and all four items were
\* added, the first entry of the index by the second call
NoInterferenceWitness ==
    /\ b_pc[1] = "done"
    /\ b_pc[2] = "done"
    /\ b_urls[1] = <<"u1", "u2">>
    /\ b_urls[2] = <<"u2", "u2">>
    /\ [k \in 1..Len(index) |-> index[k].url] = <<"u2", "u1", "u2", "u2">>

-----------------------------------------------------------------------------
(* Both ingestion paths on one index: a request to /ingest/youtube, and     *)
(* after it a call of ingest_markdown_folder                                 *)

\* the URLs of the request: none, one, the same one twice, two
RequestLists == { <<>>, <<"u1">>, <<"u1", "u1">>, <<"u1", "u2">> }

\* the folder holds at most one of the files
FolderLists == { l \in FileLists(MaxFiles) : Len(l) <= 1 }

InitBoth ==
    /\ c_pc = "idle"
    /\ segments = <<>>
    /\ max_chars = MaxChars
    /\ overlap_chars = MaxOverlap
    /\ chunks = <<>>
    /\ docs = <<>>
    /\ duration = 0
    /\ pc = "metadata"
    /\ urls \in RequestLists
    /\ url_i = 1
    /\ results = <<>>
    /\ index = <<>>
    /\ video = NoVideo
    /\ lang_i = 1
    /\ tried = <<>>
    /\ stage = NoStage
    /\ history = <<>>
    /\ calls = [k \in 1..Len(urls) |-> NoCalls]
    /\ SearchIdle
    /\ e_pc = "request"
    /\ e_k = 0
    /\ world = <<>>
    /\ e_status = 0
    /\ e_body = <<>>
    /\ TextIdle
    /\ f_pc = "start"
    /\ md_files \in FolderLists
    /\ file_i = 1
    /\ ingested = <<>>
    /\ f_log = <<>>
    /\ BatchIdle

\* the folder is ingested once the request is answered
FolderAfterRequest == e_pc /= "request" /\ NextFolder

NextBoth == NextIngest \/ FolderAfterRequest

SpecBoth == InitBoth /\ [][NextBoth]_vars

\* the outcomes with status ok, in order
OkOutcomes(outcomes) == SelectSeq(outcomes, LAMBDA r : r.status = "ok")

\* the number of documents in an index
RECURSIVE Stored(_)
Stored(idx) == IF idx = <<>> THEN 0 ELSE Head(idx).n + Stored(Tail(idx))

\* the sum of the chunk counts of a list of ok outcomes
RECURSIVE Counted(_)
Counted(oks) == IF oks = <<>> THEN 0 ELSE Head(oks).chunks + Counted(Tail(oks))

\* C22: on both paths an ok outcome reports at least one chunk; the index
\* holds one entry per ok outcome, in the order of the outcomes, with the
\* source of the outcome and as many documents as the outcome reports, so
\* a source that is ingested twice is stored twice; an ok item of the
\* request called the index add once; and the index holds as many documents
\* as the ok outcomes report together.
ChunkAccounting ==
    LET yt == OkOutcomes(results)
        md == OkOutcomes(ingested)
    IN  /\ \A k \in 1..Len(yt) : yt[k].chunks >= 1
        /\ \A k \in 1..Len(md) : md[k].chunks >= 1
        /\ Len(index) = Len(yt) + Len(md)
        /\ \A k \in 1..Len(yt) :
              index[k] = [url |-> yt[k].url, n |-> yt[k].chunks]
        /\ \A k \in 1..Len(md) :
              index[Len(yt) + k] = [url |-> md[k].file, n |-> md[k].chunks]
        /\ \A k \in 1..Len(results) :
              /\ results[k].status = "ok" => calls[k].add = 1
              /\ calls[k].add <= 1
        /\ Stored(index) = Counted(yt) + Counted(md)

\* C22 witness: the same URL was ingested twice and a file once; the index
\* holds the URL's documents twice and the file's documents
ChunkAccountingWitness ==
    /\ pc = "done"
    /\ f_pc = "done"
    /\ urls = <<"u1", "u1">>
    /\ Len(index) = 3
    /\ index[1].url = "u1"
    /\ index[2].url = "u1"
    /\ index[3].url = md_files[1]
    /\ Stored(index) >= 3

====
